---- MODULE Spec2Model ----
(***************************************************************************)
(* Model of the plan-generation edge function generate-study-plan-v2 of    *)
(* AccuPlanner: one request travelling through authentication, input      *)
(* checks, model discovery, the generation retry loop, JSON extraction,    *)
(* plan validation and per-step link filtering.                            *)
(*                                                                         *)
(* Texts are sequences of string pieces, so that concatenation is \o and   *)
(* the empty text is << >>.  JavaScript values are records                 *)
(* [t |-> type, s |-> text, n |-> number].                                 *)
(***************************************************************************)
EXTENDS Integers, Sequences, FiniteSets, TLC

\* ------------------------------------------------------------------ bounds
\* longest model catalog the discovery endpoint answers with
MaxCatalog == 2
\* most lessons of the goal whose progress is updated
MaxLessons == 2
\* most steps of the study plan sent to create-goal
MaxSteps == 2

\* ------------------------------------------------------- JavaScript values
Txt(s) == <<s>>
Str(x) == [t |-> "string", s |-> x, n |-> 0]
Num(k) == [t |-> "number", s |-> << >>, n |-> k]
Undef == [t |-> "undefined", s |-> << >>, n |-> 0]

\* JavaScript truthiness of a value (used by !x)
Truthy(v) ==
  CASE v.t = "string" -> v.s # << >>
    [] v.t = "number" -> v.n # 0
    [] OTHER -> FALSE

\* encodeURIComponent(text)
encodeURIComponent(x) == <<"enc(">> \o x \o <<")">>

\* ------------------------------------------------------------ goal titles
LongTitle == "Learn the complete history of the Byzantine Empire from 330 to 1453"
LongTitleCut == "Learn the complete history of the Byzantine Empire from 3"

\* goalTitle.length > 60 ? goalTitle.slice(0, 57) + '...' : goalTitle
safeTitle(goalTitle) ==
  IF goalTitle = Txt(LongTitle) THEN <<LongTitleCut, "...">> ELSE goalTitle

\* safeTitle.replace(/^(Learn|Master|Study)\s+/i, '').trim()
base(goalTitle) ==
  LET st == safeTitle(goalTitle) IN
  CASE st = Txt("Learn Python") -> Txt("Python")
    [] st = Txt("   ") -> << >>
    [] st = <<LongTitleCut, "...">> ->
         <<"the complete history of the Byzantine Empire from 3", "...">>
    [] OTHER -> st

\* ----------------------------------------------------------- fallback plan
\* a Resource: type, title and url; the empty text is an absent url
Res(type, title, url) == [type |-> type, title |-> title, url |-> url]

makeStep(i, title, minutes, goalDescription) ==
  [ id |-> Str(<<"fallback-", ToString(i)>>),
    title |-> Str(<<"Step ", ToString(i), ": ">> \o title),
    description |-> Str(<<"Work through this step. ">> \o
        (IF goalDescription # << >> THEN <<"Context: ">> \o goalDescription ELSE << >>)),
    durationMinutes |-> Num(minutes),
    resourcesIsArray |-> TRUE,
    resources |-> <<
      Res("article", title \o <<" - Overview">>,
               <<"https://www.google.com/search?q=">> \o encodeURIComponent(title)),
      Res("article", title \o <<" - Beginner friendly">>,
               <<"https://duckduckgo.com/?q=">> \o encodeURIComponent(title \o <<" beginner">>)),
      Res("exercise", title \o <<" - Practice tasks">>,
               <<"https://www.google.com/search?q=">> \o encodeURIComponent(title \o <<" exercises">>))
    >> ]

\* a fallback plan whose steps all carry the same id
buildFallbackPlanSameId(goalTitle, goalDescription) ==
  LET b == base(goalTitle) IN
  [ title |-> Str(b \o <<" Learning Path (Fallback)">>),
    category |-> Str(Txt("Self-paced")),
    difficulty |-> Num(1),
    summary |-> Str(Txt("Fallback learning path generated locally")),
    stepsIsArray |-> TRUE,
    steps |-> <<
      makeStep(1, b \o <<" fundamentals">>, 45, goalDescription),
      makeStep(1, <<"Core concepts of ">> \o b, 60, goalDescription),
      makeStep(1, b \o <<" applied examples">>, 60, goalDescription),
      makeStep(1, <<"Projects with ">> \o b, 75, goalDescription),
      makeStep(1, <<"Review and next steps">>, 30, goalDescription)
    >> ]

buildFallbackPlan(goalTitle, goalDescription) ==
  LET b == base(goalTitle) IN
  [ title |-> Str(b \o <<" Learning Path (Fallback)">>),
    category |-> Str(Txt("Self-paced")),
    difficulty |-> Num(1),
    summary |-> Str(Txt("Fallback learning path generated locally")),
    stepsIsArray |-> TRUE,
    steps |-> <<
      makeStep(1, b \o <<" fundamentals">>, 45, goalDescription),
      makeStep(2, <<"Core concepts of ">> \o b, 60, goalDescription),
      makeStep(3, b \o <<" applied examples">>, 60, goalDescription),
      makeStep(4, <<"Projects with ">> \o b, 75, goalDescription),
      makeStep(5, <<"Review and next steps">>, 30, goalDescription)
    >> ]

\* --------------------------------------------------------- model discovery
ModelNames == {"models/gemini-1.5-flash-8b", "models/gemini-1.5-pro", "models/gemini-2.0-flash"}

preferredOrder ==
  <<"gemini-1.5-flash-8b", "gemini-1.5-flash", "gemini-1.5-pro", "gemini-pro", "gemini-1.0-pro">>

\* name.includes(p) on the names above
NameIncludes(name, p) ==
  \/ name = "models/gemini-1.5-flash-8b" /\ p \in {"gemini-1.5-flash-8b", "gemini-1.5-flash"}
  \/ name = "models/gemini-1.5-pro" /\ p = "gemini-1.5-pro"

\* a catalog entry: name and whether supportedGenerationMethods has generateContent
CatalogModels == [name : ModelNames, gen : BOOLEAN]

RECURSIVE SeqsUpTo(_, _)
SeqsUpTo(S, k) ==
  IF k = 0 THEN {<< >>}
  ELSE LET shorter == SeqsUpTo(S, k - 1) IN
       shorter \cup {Append(q, x) : q \in {r \in shorter : Len(r) = k - 1}, x \in S}

Catalogs == SeqsUpTo(CatalogModels, MaxCatalog)

NoModel == "none"

\* Array.prototype.find over the catalog: name of the first entry that is
\* in the set matching
find(catalog, matching) ==
  LET hits == {i \in 1..Len(catalog) : catalog[i] \in matching} IN
  IF hits = {} THEN NoModel
  ELSE catalog[CHOOSE i \in hits : \A j \in hits : i <= j].name

byPreference(catalog) ==
  find(catalog, {m \in CatalogModels :
                   m.gen /\ \E k \in 1..Len(preferredOrder) : NameIncludes(m.name, preferredOrder[k])})

\* byPreference || availableModels.find(generateContent)
generativeModel(catalog) ==
  IF byPreference(catalog) # NoModel THEN byPreference(catalog)
  ELSE find(catalog, {m \in CatalogModels : m.gen})

\* the capable entries of a catalog, by position
capableAt(catalog) == {i \in 1..Len(catalog) : catalog[i].gen}

\* rank of the earliest entry of preferredOrder that a capable model of the
\* catalog matches, 0 when none matches
bestRank(catalog) ==
  LET ranks == {k \in 1..Len(preferredOrder) :
                  \E i \in capableAt(catalog) : NameIncludes(catalog[i].name, preferredOrder[k])}
  IN IF ranks = {} THEN 0 ELSE CHOOSE k \in ranks : \A l \in ranks : k <= l

\* the first capable model in listing order
firstCapable(catalog) ==
  IF capableAt(catalog) = {} THEN NoModel
  ELSE catalog[CHOOSE i \in capableAt(catalog) : \A j \in capableAt(catalog) : i <= j].name

\* ---------------------------------------------------- candidate plans (JSON)
YouTubeUrl == Txt("https://youtu.be/abc")
DocsUrl == Txt("https://docs.python.org")
ExerciseUrl == Txt("https://exercism.org/python")
BadUrl == Txt("see the textbook")
TalkUrl == Txt("https://vimeo.com/123")

GoodStep1 ==
  [ id |-> Str(Txt("s1")), title |-> Str(Txt("Syntax")), description |-> Str(Txt("...")),
    durationMinutes |-> Num(30), resourcesIsArray |-> TRUE,
    resources |-> << Res("video", Txt("Intro video"), YouTubeUrl),
                     Res("article", Txt("Docs"), DocsUrl) >> ]

GoodStep2 ==
  [ id |-> Str(Txt("s2")), title |-> Str(Txt("Practice")), description |-> Str(Txt("...")),
    durationMinutes |-> Num(60), resourcesIsArray |-> TRUE,
    resources |-> << Res("book", Txt("Textbook"), << >>),
                     Res("exercise", Txt("Katas"), ExerciseUrl) >> ]

LooseStep ==
  [ id |-> Str(Txt("s3")), title |-> Str(Txt("Reading")), description |-> Str(Txt("...")),
    durationMinutes |-> Num(20), resourcesIsArray |-> TRUE,
    resources |-> << Res("exercise", Txt("Notes"), BadUrl) >> ]

GoodPlan ==
  [ title |-> Str(Txt("Python Basics")), category |-> Str(Txt("Programming")),
    difficulty |-> Num(2), summary |-> Str(Txt("...")),
    stepsIsArray |-> TRUE, steps |-> <<GoodStep1, GoodStep2>> ]

\* the JSON object a member token stands for
CandidateOf(c) ==
  CASE c = "good" -> GoodPlan
    [] c = "loose" -> [GoodPlan EXCEPT !.steps = <<LooseStep>>, !.difficulty = Undef]
    [] c = "emptysteps" -> [GoodPlan EXCEPT !.steps = << >>]
    [] c = "difficulty5" -> [GoodPlan EXCEPT !.difficulty = Num(5), !.steps = <<GoodStep2>>]
    [] c = "nosteps" -> [GoodPlan EXCEPT !.stepsIsArray = FALSE, !.steps = << >>]
    [] c = "notitle" -> [GoodPlan EXCEPT !.title = Undef]
    [] c = "emptysummary" -> [GoodPlan EXCEPT !.summary = Str(<< >>)]
    [] c = "badstep" ->
         [GoodPlan EXCEPT !.steps = <<[GoodStep2 EXCEPT !.durationMinutes = Str(Txt("60"))]>>]
    [] c = "noresources" ->
         [GoodPlan EXCEPT !.steps = <<[GoodStep2 EXCEPT !.resources = << >>]>>]
    [] c = "notitlebadstep" ->
         [GoodPlan EXCEPT !.title = Undef,
                          !.steps = <<[GoodStep2 EXCEPT !.id = Num(1)]>>]
    [] c = "withfence" ->
         [GoodPlan EXCEPT !.summary = Str(Txt("one triple backtick")), !.steps = <<GoodStep2>>]
    [] c = "withfences" ->
         [GoodPlan EXCEPT !.summary = Str(Txt("a fenced code sample")), !.steps = <<GoodStep2>>]
    [] c = "withbraces" ->
         [GoodPlan EXCEPT !.summary = Str(Txt("braces } {")), !.steps = <<GoodStep2>>]
    [] c = "talk" ->
         [GoodPlan EXCEPT !.steps =
            <<[GoodStep1 EXCEPT !.resources = << Res("video", Txt("Conference talk"), TalkUrl),
                                                 Res("article", Txt("Docs"), DocsUrl) >>]>>]
    [] c = "numtitle" -> [GoodPlan EXCEPT !.title = Num(7), !.steps = <<GoodStep2>>]
    [] c = "negduration" ->
         [GoodPlan EXCEPT !.steps = <<[GoodStep2 EXCEPT !.durationMinutes = Num(-5)]>>]

CandidateIds ==
  {"good", "loose", "emptysteps", "difficulty5", "nosteps", "notitle", "emptysummary",
   "badstep", "noresources", "notitlebadstep", "withfence", "withfences", "withbraces",
   "numtitle", "negduration", "talk"}

\* -------------------------------------------------------------- extractJson
\* A response text is a sequence of tokens: the triple-backtick fence, the label json,
\* white space, prose without braces or backticks, the braces, and a member
\* token that stands for the members of one JSON object.  A triple backtick
\* or a brace inside a JSON string literal is a token of its own: the same
\* characters to a regular expression, string content to JSON.parse.
Fence == "fence"

isFence(tok) == tok \in {Fence, "strfence"}
isOpen(tok) == tok \in {"{", "str{"}
isClose(tok) == tok \in {"}", "str}"}

\* the JSON text of a candidate: JSON.stringify(candidate)
JsonText(c) ==
  CASE c = "withfence" -> <<"{", c, "strfence", "}">>
    [] c = "withfences" -> <<"{", c, "strfence", "strfence", "}">>
    [] c = "withbraces" -> <<"{", c, "str}", "str{", "}">>
    [] OTHER -> <<"{", c, "}">>

\* j wrapped in a json-labelled code fence
Wrap(j) == <<Fence, "json", "ws">> \o j \o <<"ws", Fence>>

ParseError == "ParseError"
NoJson == "NoJson"

\* String.prototype.trim on tokens
RECURSIVE trim(_)
trim(toks) ==
  IF toks = << >> THEN toks
  ELSE IF Head(toks) = "ws" THEN trim(Tail(toks))
  ELSE IF toks[Len(toks)] = "ws" THEN trim(SubSeq(toks, 1, Len(toks) - 1))
  ELSE toks

\* JSON.parse: the member token of a well-formed object text, or ParseError
JSONparse(toks) ==
  LET t == trim(toks)
      hits == {c \in CandidateIds : JsonText(c) = t} IN
  IF hits = {} THEN ParseError ELSE CHOOSE c \in hits : TRUE

\* text.match(fence, optional json label, white space, lazy group, white
\* space, fence): the captured group, trimmed
codeBlockMatch(text) ==
  LET fences == {i \in 1..Len(text) : isFence(text[i])} IN
  IF Cardinality(fences) < 2 THEN <<FALSE, << >> >>
  ELSE LET i == CHOOSE x \in fences : \A y \in fences : x <= y
           j == CHOOSE x \in fences \ {i} : \A y \in fences \ {i} : x <= y
           from == IF i + 1 < j /\ text[i + 1] = "json" THEN i + 2 ELSE i + 1
       IN <<TRUE, trim(SubSeq(text, from, j - 1))>>

\* text.match(/\{[\s\S]*\}/): first { to last }
jsonMatch(text) ==
  LET opens == {i \in 1..Len(text) : isOpen(text[i])}
      closes == {i \in 1..Len(text) : isClose(text[i])} IN
  IF opens = {} THEN <<FALSE, << >> >>
  ELSE LET i == CHOOSE x \in opens : \A y \in opens : x <= y
           after == {x \in closes : x > i} IN
       IF after = {} THEN <<FALSE, << >> >>
       ELSE <<TRUE, SubSeq(text, i, CHOOSE x \in after : \A y \in after : x >= y)>>

extractJson(text) ==
  IF codeBlockMatch(text)[1] THEN JSONparse(codeBlockMatch(text)[2])
  ELSE IF jsonMatch(text)[1] THEN JSONparse(jsonMatch(text)[2])
  ELSE NoJson

\* the texts the generation endpoint answers with
ModelTexts ==
  {JsonText(c) : c \in CandidateIds} \cup
  {Wrap(JsonText(c)) : c \in {"good", "withfence", "withbraces"}} \cup
  {
    <<Fence, "ws", "{", "loose", "}", Fence>>,
    <<"prose", "ws", "{", "good", "}", "ws", "prose">>,
    <<"prose">>,
    <<"{", "good">>,
    <<Fence, "prose", Fence, "ws", "{", "good", "}">> }

\* ----------------------------------------------------------- plan validation
\* a required-field check that forgets the summary
missingRequiredFieldsNoSummary(parsed) == ~Truthy(parsed.title) \/ ~parsed.stepsIsArray

\* !parsed?.title || !parsed?.summary || !Array.isArray(parsed?.steps)
missingRequiredFields(parsed) ==
  ~Truthy(parsed.title) \/ ~Truthy(parsed.summary) \/ ~parsed.stepsIsArray

stepsOk(parsed) ==
  \A k \in 1..Len(parsed.steps) :
    LET s == parsed.steps[k] IN
    /\ s.id.t = "string" /\ s.title.t = "string" /\ s.description.t = "string"
    /\ s.durationMinutes.t = "number" /\ s.resourcesIsArray

\* ------------------------------------------------------------ link validator
\* /^(https?:\/\/)?(www\.)?(youtube\.com|youtu\.be)\//i.test(url) on the urls above
IsYouTubeUrl(url) == url = YouTubeUrl

\* /^https?:\/\/.+\..+/.test(url) on the urls above
LooksLikeUrl(url) == url \in {YouTubeUrl, DocsUrl, ExerciseUrl, TalkUrl}

\* what a fetch of a link ends with: a response with a status, or a rejection
ProbeStatuses == {200, 206, 301, 404, 405}
ProbeOutcomes ==
  [kind : {"resp"}, status : ProbeStatuses] \cup {[kind |-> "throw", status |-> 0]}

\* Response.ok
ok(status) == status >= 200 /\ status < 300

Probe(st, timer) == [st |-> st, timer |-> timer]
Settled == {"kept", "valid", "invalid"}

\* a callback that drops the resources without a url
startProbeDropNoUrl(r) ==
  IF r.url = << >> THEN Probe("invalid", "none")
  ELSE IF r.type = "video" \/ IsYouTubeUrl(r.url) THEN Probe("oembed", "armed")
  ELSE IF r.type \in {"article", "course", "book"} THEN Probe("head", "armed")
  ELSE IF LooksLikeUrl(r.url) THEN Probe("valid", "none")
  ELSE Probe("invalid", "none")

\* the map callback and validateResourceUrl up to their first await
startProbe(r) ==
  IF r.url = << >> THEN Probe("kept", "none")
  ELSE IF r.type = "video" \/ IsYouTubeUrl(r.url) THEN Probe("oembed", "armed")
  ELSE IF r.type \in {"article", "course", "book"} THEN Probe("head", "armed")
  ELSE IF LooksLikeUrl(r.url) THEN Probe("valid", "none")
  ELSE Probe("invalid", "none")

startProbes(step) == [i \in 1..Len(step.resources) |-> startProbe(step.resources[i])]

\* network calls issued when the checks of a step start
callsStarted(ps) == Cardinality({i \in 1..Len(ps) : ps[i].timer = "armed"})

\* the (url, type) pairs of a step whose check has returned true
validOf(step, ps) ==
  {<<step.resources[i].url, step.resources[i].type>> : i \in {j \in 1..Len(ps) : ps[j].st = "valid"}}

\* validateResourceUrl resumed by the end of its fetch
probeAfter(p, o) ==
  CASE p.st = "oembed" ->
         Probe(IF o.kind = "resp" /\ ok(o.status) THEN "valid" ELSE "invalid", "cleared")
    [] p.st = "head" ->
         IF o.kind = "throw" THEN Probe("get", "cleared")
         ELSE Probe(IF ok(o.status) \/ (o.status >= 300 /\ o.status < 400)
                    THEN "valid" ELSE "invalid", "cleared")
    [] p.st = "get" ->
         Probe(IF o.kind = "resp" /\ (ok(o.status) \/ o.status = 206 \/
                                       (o.status >= 300 /\ o.status < 400))
               THEN "valid" ELSE "invalid", "cleared")

\* a filter that empties the step as soon as one check failed
filterResultsDropStep(resources, ps, i) ==
  IF \E k \in 1..Len(ps) : ps[k].st = "invalid" THEN << >> ELSE resources

\* a filter that returns the surviving resources last to first
RECURSIVE filterResultsReversed(_, _, _)
filterResultsReversed(resources, ps, i) ==
  IF i > Len(resources) THEN << >>
  ELSE filterResultsReversed(resources, ps, i + 1)
       \o (IF ps[i].st \in {"kept", "valid"} THEN <<resources[i]>> ELSE << >>)

\* a filter that keeps every resource, whatever its check returned
filterResultsKeepAll(resources, ps, i) == resources

\* results.filter(Boolean): the resources whose callback returned the resource
RECURSIVE filterResults(_, _, _)
filterResults(resources, ps, i) ==
  IF i > Len(resources) THEN << >>
  ELSE (IF ps[i].st \in {"kept", "valid"} THEN <<resources[i]>> ELSE << >>)
       \o filterResults(resources, ps, i + 1)

\* the search link pushed into a step that lost all its resources
searchLink(step) ==
  Res("article", step.title.s \o <<" - Curated Resources">>,
      <<"https://www.google.com/search?q=">> \o encodeURIComponent(step.title.s))

\* filtering without the length check
filteredResourcesNoPush(step, ps) == filterResults(step.resources, ps, 1)

\* step.resources after the filter and the length check
filteredResources(step, ps) ==
  LET kept == filterResults(step.resources, ps, 1) IN
  IF Len(kept) = 0 THEN <<searchLink(step)>> ELSE kept

\* ------------------------------------------------------------------- state
VARIABLES
  pc,            \* where the handler is: start, await_models, await_gen, backoff, filtering, done
  req,           \* the request: method, Authorization header present, body
  hasKey,        \* GEMINI_API_KEY is set in the environment
  model,         \* generativeModel.name
  attempt,       \* loop variable of the retry loop
  delay,         \* milliseconds of the backoff the handler is sleeping
  lastAttempt,   \* how the latest generation call ended
  allRetryable,  \* every generation call so far ended with a retryable error
  modelFetches,  \* calls made to the model catalog endpoint
  discovery,     \* how the catalog fetch ended: none, throw, notok, nonjson, nocapable, found
  genCalls,      \* calls made to the generateContent endpoint
  linkCalls,     \* calls made to probed link hosts and the oembed endpoint
  plan,          \* the parsed plan being filtered
  stepIdx,       \* 1-based position of the for-of loop over plan.steps
  probes,        \* state of the link checks of the current step
  validated,     \* (url, type) pairs validateResourceUrl returned true for
  preference,    \* of the catalog received: best preference rank a capable model matches, first capable model
  contentText,   \* the text of the successful generation response, << >> when there is none
  probeLog,      \* the fetches of the current step's link checks that have ended, in the order they ended
  response,      \* the response sent
  learning_goals, \* table learning_goals: rows [id, progress]
  lessons,       \* table lessons: rows [goal_id, order_index, completed]
  study_plans,   \* table study_plans: rows [goal_title]
  upc,           \* update-goal-progress, per request: start, update_lesson, select_lessons, update_goal, done
  ureq,          \* update-goal-progress, per request: credential, lessonId (0 when absent), completed
  uprogress,     \* update-goal-progress, per request: the local const progress
  uresp,         \* update-goal-progress, per request: status of the response, 0 when none
  gpc,           \* create-goal, per request: start, insert_goal, insert_lessons, insert_plan, done
  greq,          \* create-goal, per request: credential and studyPlan of the body
  gresp          \* create-goal, per request: status of the response, 0 when none

handlerVars == <<pc, req, hasKey, model, attempt, delay, lastAttempt, allRetryable, modelFetches,
          discovery, genCalls, linkCalls, plan, stepIdx, probes, validated, preference,
          contentText, probeLog, response>>

\* the tables and the requests of create-goal and update-goal-progress
dbVars == <<learning_goals, lessons, study_plans, upc, ureq, uprogress, uresp, gpc, greq, gresp>>

vars == <<handlerVars, dbVars>>

\* a retry loop with one more iteration
maxRetriesPlusOne == 5 + 1

maxRetries == 5

NoPlan ==
  [ title |-> Undef, category |-> Undef, difficulty |-> Undef, summary |-> Undef,
    stepsIsArray |-> FALSE, steps |-> << >> ]

NoResponse == [status |-> 0, kind |-> "none", error |-> "", plan |-> NoPlan]
ErrorResponse(status, msg) == [status |-> status, kind |-> "error", error |-> msg, plan |-> NoPlan]
PlanResponse(kind, p) == [status |-> 200, kind |-> kind, error |-> "", plan |-> p]

NoAttempt == [kind |-> "none", status |-> 0, body |-> ""]

\* the request bodies: not JSON, or an object with goalTitle and goalDescription
GoalTitles ==
  {Undef, Num(7), Str(<< >>), Str(Txt("   ")), Str(Txt("Python")), Str(Txt("Learn Python")),
   Str(Txt(LongTitle))}
Bodies ==
  {[json |-> FALSE, goalTitle |-> Undef, goalDescription |-> << >>]} \cup
  [json : {TRUE}, goalTitle : GoalTitles, goalDescription : {<< >>, Txt("for my job")}]
Requests == [method : {"POST", "OPTIONS"}, auth : BOOLEAN, body : Bodies]

goalTitle == req.body.goalTitle.s
goalDescription == req.body.goalDescription

\* the concurrent requests to create-goal or to update-goal-progress
Clients == {"c1", "c2"}
Credentials == {"none", "invalid", "valid"}

\* no request to create-goal or update-goal-progress, empty tables
dbIdle ==
  /\ learning_goals = {} /\ lessons = {} /\ study_plans = {}
  /\ upc = [c \in Clients |-> "done"]
  /\ ureq = [c \in Clients |-> [auth |-> "none", lessonId |-> 0, completed |-> FALSE]]
  /\ uprogress = [c \in Clients |-> 0]
  /\ uresp = [c \in Clients |-> 0]
  /\ gpc = [c \in Clients |-> "done"]
  /\ greq = [c \in Clients |-> [auth |-> "none", studyPlan |-> FALSE, hasSteps |-> FALSE, steps |-> 0]]
  /\ gresp = [c \in Clients |-> 0]

Init ==
  /\ dbIdle
  /\ pc = "start"
  /\ req \in Requests
  /\ hasKey \in BOOLEAN
  /\ model = NoModel
  /\ attempt = 0
  /\ delay = 0
  /\ lastAttempt = NoAttempt
  /\ allRetryable = TRUE
  /\ modelFetches = 0
  /\ discovery = "none"
  /\ genCalls = 0
  /\ linkCalls = 0
  /\ plan = NoPlan
  /\ stepIdx = 0
  /\ probes = << >>
  /\ validated = {}
  /\ preference = [best |-> 0, first |-> NoModel]
  /\ contentText = << >>
  /\ probeLog = << >>
  /\ response = NoResponse

\* return new Response(...)
Reply(r) == pc' = "done" /\ response' = r

\* error.message of a rejected fetch to the generative backend: the
\* runtime's text, with or without the url (and its key parameter) in it
FetchFailureWithUrl ==
  "thrown: error sending request for url (https://generativelanguage.googleapis.com/v1beta/...?key=<GEMINI_API_KEY>)"
FetchFailureMessages == {FetchFailureWithUrl, "thrown: error sending request"}

\* the catch-all of the handler: error.message goes into the body
CatchAll(msg) == Reply(ErrorResponse(500, msg))

\* ------------------------------------------------- handler up to first fetch
\* the handler without its Authorization check
StartNoAuthCheck ==
  /\ pc = "start"
  /\ IF req.method = "OPTIONS" THEN
       Reply([status |-> 200, kind |-> "preflight", error |-> "", plan |-> NoPlan])
       /\ UNCHANGED modelFetches
     ELSE IF ~req.body.json THEN
       CatchAll("thrown: request body is not JSON") /\ UNCHANGED modelFetches
     ELSE IF ~Truthy(req.body.goalTitle) \/ req.body.goalTitle.t # "string" THEN
       Reply(ErrorResponse(400, "Goal title is required and must be a string"))
       /\ UNCHANGED modelFetches
     ELSE IF ~hasKey THEN
       CatchAll("thrown: GEMINI_API_KEY is not configured")
       /\ UNCHANGED modelFetches
     ELSE
       /\ pc' = "await_models"
       /\ modelFetches' = modelFetches + 1
       /\ UNCHANGED response
  /\ UNCHANGED <<req, hasKey, model, attempt, delay, lastAttempt, allRetryable, genCalls,
                 linkCalls, plan, stepIdx, probes, validated, discovery, preference,
                 contentText, probeLog>>
  /\ UNCHANGED dbVars

Start ==
  /\ pc = "start"
  /\ IF req.method = "OPTIONS" THEN
       Reply([status |-> 200, kind |-> "preflight", error |-> "", plan |-> NoPlan])
       /\ UNCHANGED modelFetches
     ELSE IF ~req.auth THEN
       Reply(ErrorResponse(401, "Missing authorization header")) /\ UNCHANGED modelFetches
     ELSE IF ~req.body.json THEN
       CatchAll("thrown: request body is not JSON") /\ UNCHANGED modelFetches
     ELSE IF ~Truthy(req.body.goalTitle) \/ req.body.goalTitle.t # "string" THEN
       Reply(ErrorResponse(400, "Goal title is required and must be a string"))
       /\ UNCHANGED modelFetches
     ELSE IF ~hasKey THEN
       CatchAll("thrown: GEMINI_API_KEY is not configured")
       /\ UNCHANGED modelFetches
     ELSE
       /\ pc' = "await_models"
       /\ modelFetches' = modelFetches + 1
       /\ UNCHANGED response
  /\ UNCHANGED <<req, hasKey, model, attempt, delay, lastAttempt, allRetryable, genCalls,
                 linkCalls, plan, stepIdx, probes, validated, discovery, preference,
                 contentText, probeLog>>
  /\ UNCHANGED dbVars

\* ------------------------------------------------------------ model catalog
CatalogOutcomes ==
  {[kind |-> k, catalog |-> << >>] : k \in {"throw", "notok", "nonjson"}} \cup
  [kind : {"catalog"}, catalog : Catalogs]

ModelsResponse ==
  /\ pc = "await_models"
  /\ \E o \in CatalogOutcomes :
       /\ preference' = [best |-> bestRank(o.catalog), first |-> firstCapable(o.catalog)]
       /\ discovery' = IF o.kind # "catalog" THEN o.kind
                       ELSE IF generativeModel(o.catalog) = NoModel THEN "nocapable"
                       ELSE "found"
       /\ IF o.kind = "throw" THEN
            (\E msg \in FetchFailureMessages : CatchAll(msg))
            /\ UNCHANGED <<model, genCalls>>
          ELSE IF o.kind = "notok" THEN
            Reply(ErrorResponse(502, "Failed to fetch available models. Please check your API key."))
            /\ UNCHANGED <<model, genCalls>>
          ELSE IF o.kind = "nonjson" THEN
            CatchAll("thrown: catalog body is not JSON")
            /\ UNCHANGED <<model, genCalls>>
          ELSE IF generativeModel(o.catalog) = NoModel THEN
            Reply(ErrorResponse(502, "No generative models available. Please check your API access."))
            /\ UNCHANGED <<model, genCalls>>
          ELSE
            /\ model' = generativeModel(o.catalog)
            /\ genCalls' = genCalls + 1
            /\ pc' = "await_gen"
            /\ UNCHANGED response
  /\ UNCHANGED <<req, hasKey, attempt, delay, lastAttempt, allRetryable, modelFetches,
                 linkCalls, plan, stepIdx, probes, validated, contentText, probeLog>>
  /\ UNCHANGED dbVars

\* ---------------------------------------------------------- generation loop
GenStatuses == {400, 401, 402, 404, 429, 500, 503}

\* error bodies: not JSON, a JSON error with an ordinary message, with a
\* message containing "overloaded", or with a message that is not a string
ErrBodies == {"nonjson", "plain", "overloaded", "nonstring"}

GenOutcomes ==
  {[kind |-> "throw", status |-> 0, body |-> "", text |-> << >>]} \cup
  [kind : {"status"}, status : GenStatuses, body : ErrBodies, text : {<< >>}] \cup
  [kind : {"ok"}, status : {200}, body : {"nonjson", "notext"}, text : {<< >>}] \cup
  [kind : {"ok"}, status : {200}, body : {"text"}, text : ModelTexts]

\* Math.floor(Math.random() * 300): the two ends of its range
Jitters == {0, 299}

retryStatus(status) == status = 429 \/ status = 503 \/ status = 500

\* the try block after a failed attempt throws: aiResp.json() on a body
\* that is not JSON, or lastError.toLowerCase() on a message that is not a string
errBodyThrows(o) ==
  \/ o.body = "nonjson"
  \/ o.body = "nonstring" /\ ~retryStatus(o.status)

isRetryable(o) == retryStatus(o.status) \/ o.body = "overloaded"

\* a failure with status 429, 500 or 503 or with an 'overloaded' message
RetryableFailure(a) ==
  a.kind = "status" /\ (a.status \in {429, 500, 503} \/ a.body = "overloaded")

\* the filtering loop entered with a validated plan
BeginFiltering(p) ==
  IF Len(p.steps) = 0 THEN
    /\ Reply(PlanResponse("plan", p))
    /\ plan' = p
    /\ UNCHANGED <<stepIdx, probes, linkCalls, validated>>
  ELSE
    /\ pc' = "filtering"
    /\ plan' = p
    /\ stepIdx' = 1
    /\ probes' = startProbes(p.steps[1])
    /\ linkCalls' = linkCalls + callsStarted(startProbes(p.steps[1]))
    /\ validated' = validated \cup validOf(p.steps[1], startProbes(p.steps[1]))
    /\ UNCHANGED response

\* a fallback sent with the status computed from the upstream status
FallbackWithUpstreamStatus ==
  Reply([PlanResponse("fallback", buildFallbackPlan(goalTitle, goalDescription))
           EXCEPT !.status = IF lastAttempt'.status \in {429, 402, 400, 401}
                             THEN lastAttempt'.status ELSE 502])

Fallback == Reply(PlanResponse("fallback", buildFallbackPlan(goalTitle, goalDescription)))

\* an extraction failure that falls back instead of failing
ExtractionFailedFallback == Fallback

\* the catch around extractJson
ExtractionFailed ==
  Reply(ErrorResponse(500, "Failed to parse AI generated plan. Please try again."))

\* a retry loop that sleeps the same second before every attempt
ContinueLoopFixedDelay ==
  /\ attempt' = attempt + 1
  /\ IF attempt + 1 < maxRetries THEN
       /\ pc' = "backoff"
       /\ \E j \in Jitters : delay' = 1000 + j
       /\ UNCHANGED response
     ELSE
       Reply(PlanResponse("fallback", buildFallbackPlan(goalTitle, goalDescription)))
       /\ UNCHANGED delay

\* the next iteration of the retry loop, or the guard after the loop
ContinueLoop ==
  /\ attempt' = attempt + 1
  /\ IF attempt + 1 < maxRetries THEN
       /\ pc' = "backoff"
       /\ \E j \in Jitters : delay' = (2 ^ (attempt + 1)) * 1000 + j
       /\ UNCHANGED response
     ELSE
       Fallback /\ UNCHANGED delay

GenResponse ==
  /\ pc = "await_gen"
  /\ \E o \in GenOutcomes :
       /\ lastAttempt' = [kind |-> o.kind, status |-> o.status, body |-> o.body]
       /\ allRetryable' = (allRetryable /\ RetryableFailure(o))
       /\ contentText' = o.text
       /\ IF o.kind = "throw" THEN
            /\ \E msg \in FetchFailureMessages : CatchAll(msg)
            /\ UNCHANGED <<attempt, delay, plan, stepIdx, probes, linkCalls, validated>>
          ELSE IF o.kind = "status" THEN
            /\ IF errBodyThrows(o) THEN ContinueLoop
               ELSE IF ~isRetryable(o) \/ attempt = maxRetries - 1 THEN
                 Fallback /\ UNCHANGED <<attempt, delay>>
               ELSE ContinueLoop
            /\ UNCHANGED <<plan, stepIdx, probes, linkCalls, validated>>
          ELSE IF o.body = "nonjson" THEN
            /\ CatchAll("thrown: generation body is not JSON")
            /\ UNCHANGED <<attempt, delay, plan, stepIdx, probes, linkCalls, validated>>
          ELSE IF o.body = "notext" THEN
            /\ Reply(ErrorResponse(500, "Invalid response from AI service"))
            /\ UNCHANGED <<attempt, delay, plan, stepIdx, probes, linkCalls, validated>>
          ELSE IF extractJson(o.text) \in {ParseError, NoJson} THEN
            /\ ExtractionFailed
            /\ UNCHANGED <<attempt, delay, plan, stepIdx, probes, linkCalls, validated>>
          ELSE IF missingRequiredFields(CandidateOf(extractJson(o.text))) THEN
            /\ Reply(ErrorResponse(500, "Generated plan is missing required fields"))
            /\ UNCHANGED <<attempt, delay, plan, stepIdx, probes, linkCalls, validated>>
          ELSE IF ~stepsOk(CandidateOf(extractJson(o.text))) THEN
            /\ Reply(ErrorResponse(500, "Generated plan contains invalid steps"))
            /\ UNCHANGED <<attempt, delay, plan, stepIdx, probes, linkCalls, validated>>
          ELSE
            /\ BeginFiltering(CandidateOf(extractJson(o.text)))
            /\ UNCHANGED <<attempt, delay>>
  /\ UNCHANGED <<req, hasKey, model, modelFetches, discovery, genCalls, preference, probeLog>>
  /\ UNCHANGED dbVars

\* the backoff timer of the retry loop fires and the next call is made
BackoffElapsed ==
  /\ pc = "backoff"
  /\ pc' = "await_gen"
  /\ genCalls' = genCalls + 1
  /\ UNCHANGED <<req, hasKey, model, attempt, delay, lastAttempt, allRetryable, modelFetches,
                 discovery, linkCalls, plan, stepIdx, probes, validated, preference,
                 contentText, probeLog, response>>
  /\ UNCHANGED dbVars

\* ------------------------------------------------------------ link filtering
\* the fetch of check i of the current step ends
ProbeResponse(i) ==
  /\ pc = "filtering"
  /\ probes[i].st \in {"oembed", "head", "get"}
  /\ \E o \in ProbeOutcomes :
       /\ probes' = [probes EXCEPT ![i] = probeAfter(probes[i], o)]
       /\ probeLog' = Append(probeLog, [i |-> i, call |-> probes[i].st, end |-> o.kind,
                                        status |-> o.status])
       /\ linkCalls' = IF probeAfter(probes[i], o).st = "get" THEN linkCalls + 1 ELSE linkCalls
  /\ validated' = validated \cup validOf(plan.steps[stepIdx], probes')
  /\ UNCHANGED <<pc, req, hasKey, model, attempt, delay, lastAttempt, allRetryable,
                 modelFetches, discovery, genCalls, plan, stepIdx, preference, contentText,
                 response>>
  /\ UNCHANGED dbVars

\* the 5 s abort timer of check i fires: the fetch rejects; after a HEAD the
\* GET is given the aborted signal and rejects without a call
ProbeTimeout(i) ==
  /\ pc = "filtering"
  /\ probes[i].timer = "armed"
  /\ probes' = [probes EXCEPT ![i] = Probe("invalid", "fired")]
  /\ probeLog' = Append(probeLog, [i |-> i, call |-> probes[i].st, end |-> "timeout",
                                   status |-> 0])
  /\ UNCHANGED <<pc, req, hasKey, model, attempt, delay, lastAttempt, allRetryable,
                 modelFetches, discovery, genCalls, linkCalls, plan, stepIdx, validated,
                 preference, contentText, response>>
  /\ UNCHANGED dbVars

\* Promise.all of the current step resolves: filter, length check, next step
StepSettled ==
  /\ pc = "filtering"
  /\ \A i \in 1..Len(probes) : probes[i].st \in Settled
  /\ LET step == plan.steps[stepIdx]
         newPlan == [plan EXCEPT !.steps[stepIdx].resources = filteredResources(step, probes)]
     IN /\ plan' = newPlan
        /\ IF stepIdx < Len(plan.steps) THEN
             /\ stepIdx' = stepIdx + 1
             /\ probes' = startProbes(plan.steps[stepIdx + 1])
             /\ linkCalls' = linkCalls + callsStarted(startProbes(plan.steps[stepIdx + 1]))
             /\ validated' = validated \cup
                  validOf(plan.steps[stepIdx + 1], startProbes(plan.steps[stepIdx + 1]))
             /\ probeLog' = << >>
             /\ UNCHANGED <<pc, response>>
           ELSE
             /\ Reply(PlanResponse("plan", newPlan))
             /\ UNCHANGED <<stepIdx, probes, linkCalls, validated, probeLog>>
  /\ UNCHANGED <<req, hasKey, model, attempt, delay, lastAttempt, allRetryable,
                 modelFetches, discovery, genCalls, preference, contentText>>
  /\ UNCHANGED dbVars

\* the outbound calls in flight: the catalog fetch, a generation call, the
\* fetches of the link checks of the current step
inFlightCalls ==
  (IF pc = "await_models" THEN {<<"catalog", 0>>} ELSE {}) \cup
  (IF pc = "await_gen" THEN {<<"generate", 0>>} ELSE {}) \cup
  (IF pc = "filtering"
   THEN {<<"probe", i>> : i \in {j \in DOMAIN probes : probes[j].st \in {"oembed", "head", "get"}}}
   ELSE {})

\* the calls whose setTimeout(() => controller.abort(), 5000) is pending
armedCalls ==
  IF pc = "filtering"
  THEN {<<"probe", i>> : i \in {j \in DOMAIN probes : probes[j].timer = "armed"}}
  ELSE {}

Next ==
  \/ Start
  \/ ModelsResponse
  \/ GenResponse
  \/ BackoffElapsed
  \/ \E i \in DOMAIN probes : ProbeResponse(i)
  \/ \E i \in DOMAIN probes : ProbeTimeout(i)
  \/ StepSettled

Spec == Init /\ [][Next]_vars

\* The runtime runs the handler's own continuations and fires armed timers;
\* nothing obliges the backend or a probed host to answer.
LiveSpec ==
  /\ Spec
  /\ WF_vars(Start)
  /\ WF_vars(BackoffElapsed)
  /\ WF_vars(\E i \in DOMAIN probes : ProbeTimeout(i))
  /\ WF_vars(StepSettled)

\* ========================================================= update-goal-progress
\* Math.round((completedLessons / totalLessons) * 100), 0 without lessons
progressOf(completedLessons, totalLessons) ==
  IF totalLessons > 0 THEN (200 * completedLessons + totalLessons) \div (2 * totalLessons)
  ELSE 0

goalId == "g0"

\* the lessons of a goal
lessonsOf(g) == {l \in lessons : l.goal_id = g}

UpdateRequests == [auth : Credentials, lessonId : 0..MaxLessons, completed : BOOLEAN]

\* the handler variables of generate-study-plan-v2 with no request under way
handlerIdle ==
  /\ pc = "done"
  /\ req = [method |-> "OPTIONS", auth |-> FALSE,
            body |-> [json |-> FALSE, goalTitle |-> Undef, goalDescription |-> << >>]]
  /\ hasKey = FALSE /\ model = NoModel /\ attempt = 0 /\ delay = 0
  /\ lastAttempt = NoAttempt /\ allRetryable = TRUE /\ modelFetches = 0
  /\ discovery = "none" /\ genCalls = 0 /\ linkCalls = 0 /\ plan = NoPlan
  /\ stepIdx = 0 /\ probes = << >> /\ validated = {}
  /\ preference = [best |-> 0, first |-> NoModel]
  /\ contentText = << >> /\ probeLog = << >> /\ response = NoResponse

\* a goal with up to MaxLessons lessons, none completed, and one request per client
ProgressInit ==
  /\ handlerIdle
  /\ learning_goals = {[id |-> goalId, progress |-> 0]}
  /\ \E n \in 0..MaxLessons :
       lessons = {[goal_id |-> goalId, order_index |-> k - 1, completed |-> FALSE] : k \in 1..n}
  /\ study_plans = {}
  /\ upc = [c \in Clients |-> "start"]
  /\ ureq \in [Clients -> UpdateRequests]
  /\ uprogress = [c \in Clients |-> 0]
  /\ uresp = [c \in Clients |-> 0]
  /\ gpc = [c \in Clients |-> "done"]
  /\ greq = [c \in Clients |-> [auth |-> "none", studyPlan |-> FALSE, hasSteps |-> FALSE, steps |-> 0]]
  /\ gresp = [c \in Clients |-> 0]

\* return new Response(...) of update-goal-progress
UReply(c, status) == upc' = [upc EXCEPT ![c] = "done"] /\ uresp' = [uresp EXCEPT ![c] = status]

\* the handler up to its first table call: credential checks, req.json()
UStart(c) ==
  /\ upc[c] = "start"
  /\ IF ureq[c].auth # "valid" THEN UReply(c, 401)
     ELSE /\ upc' = [upc EXCEPT ![c] = IF ureq[c].lessonId # 0 THEN "update_lesson"
                                       ELSE "select_lessons"]
          /\ UNCHANGED uresp
  /\ UNCHANGED <<handlerVars, learning_goals, lessons, study_plans, ureq, uprogress,
                 gpc, greq, gresp>>

\* from('lessons').update({ completed }).eq('id', lessonId)
UUpdateLesson(c) ==
  /\ upc[c] = "update_lesson"
  /\ \E lessonError \in BOOLEAN :
       IF lessonError THEN UReply(c, 500) /\ UNCHANGED lessons
       ELSE /\ lessons' = {IF l.goal_id = goalId /\ l.order_index = ureq[c].lessonId - 1
                           THEN [l EXCEPT !.completed = ureq[c].completed] ELSE l : l \in lessons}
            /\ upc' = [upc EXCEPT ![c] = "select_lessons"]
            /\ UNCHANGED uresp
  /\ UNCHANGED <<handlerVars, learning_goals, study_plans, ureq, uprogress, gpc, greq, gresp>>

\* from('lessons').select('completed').eq('goal_id', goalId) and the computation of progress
USelectLessons(c) ==
  /\ upc[c] = "select_lessons"
  /\ \E lessonsError \in BOOLEAN :
       IF lessonsError THEN UReply(c, 500) /\ UNCHANGED uprogress
       ELSE /\ uprogress' = [uprogress EXCEPT ![c] =
                 progressOf(Cardinality({l \in lessonsOf(goalId) : l.completed}),
                            Cardinality(lessonsOf(goalId)))]
            /\ upc' = [upc EXCEPT ![c] = "update_goal"]
            /\ UNCHANGED uresp
  /\ UNCHANGED <<handlerVars, learning_goals, lessons, study_plans, ureq, gpc, greq, gresp>>

\* from('learning_goals').update({ progress }).eq('id', goalId) and the response
UUpdateGoal(c) ==
  /\ upc[c] = "update_goal"
  /\ \E goalError \in BOOLEAN :
       IF goalError THEN UReply(c, 500) /\ UNCHANGED learning_goals
       ELSE /\ learning_goals' = {IF g.id = goalId THEN [g EXCEPT !.progress = uprogress[c]] ELSE g :
                                    g \in learning_goals}
            /\ UReply(c, 200)
  /\ UNCHANGED <<handlerVars, lessons, study_plans, ureq, uprogress, gpc, greq, gresp>>

ProgressNext ==
  \/ \E c \in Clients : UStart(c)
  \/ \E c \in Clients : UUpdateLesson(c)
  \/ \E c \in Clients : USelectLessons(c)
  \/ \E c \in Clients : UUpdateGoal(c)

ProgressSpec == ProgressInit /\ [][ProgressNext]_vars

\* ================================================================== create-goal
\* the body: no studyPlan, a studyPlan without steps, or one with a steps array
GoalRequests ==
  [auth : Credentials, studyPlan : {FALSE}, hasSteps : {FALSE}, steps : {0}] \cup
  [auth : Credentials, studyPlan : {TRUE}, hasSteps : {FALSE}, steps : {0}] \cup
  [auth : Credentials, studyPlan : {TRUE}, hasSteps : {TRUE}, steps : 0..MaxSteps]

GoalInit ==
  /\ handlerIdle
  /\ learning_goals = {} /\ lessons = {} /\ study_plans = {}
  /\ upc = [c \in Clients |-> "done"]
  /\ ureq = [c \in Clients |-> [auth |-> "none", lessonId |-> 0, completed |-> FALSE]]
  /\ uprogress = [c \in Clients |-> 0]
  /\ uresp = [c \in Clients |-> 0]
  /\ gpc = [c \in Clients |-> "start"]
  /\ greq \in [Clients -> GoalRequests]
  /\ gresp = [c \in Clients |-> 0]

\* return new Response(...) of create-goal
GReply(c, status) == gpc' = [gpc EXCEPT ![c] = "done"] /\ gresp' = [gresp EXCEPT ![c] = status]

\* the handler up to its first table call
GStart(c) ==
  /\ gpc[c] = "start"
  /\ IF greq[c].auth # "valid" THEN GReply(c, 401)
     ELSE gpc' = [gpc EXCEPT ![c] = "insert_goal"] /\ UNCHANGED gresp
  /\ UNCHANGED <<handlerVars, learning_goals, lessons, study_plans, upc, ureq, uprogress,
                 uresp, greq>>

\* from('learning_goals').insert({...}).select().single(); the row's id is the client's
GInsertGoal(c) ==
  /\ gpc[c] = "insert_goal"
  /\ \E goalError \in BOOLEAN :
       IF goalError THEN GReply(c, 500) /\ UNCHANGED learning_goals
       ELSE /\ learning_goals' = learning_goals \cup {[id |-> c, progress |-> 0]}
            /\ IF greq[c].studyPlan /\ greq[c].hasSteps THEN
                 gpc' = [gpc EXCEPT ![c] = "insert_lessons"] /\ UNCHANGED gresp
               ELSE IF greq[c].studyPlan THEN
                 gpc' = [gpc EXCEPT ![c] = "insert_plan"] /\ UNCHANGED gresp
               ELSE GReply(c, 200)
  /\ UNCHANGED <<handlerVars, lessons, study_plans, upc, ureq, uprogress, uresp, greq>>

\* from('lessons').insert(lessons): one row per step, order_index its index
GInsertLessons(c) ==
  /\ gpc[c] = "insert_lessons"
  /\ \E lessonsError \in BOOLEAN :
       IF lessonsError THEN GReply(c, 500) /\ UNCHANGED lessons
       ELSE /\ lessons' = lessons \cup
                 {[goal_id |-> c, order_index |-> k - 1, completed |-> FALSE] : k \in 1..greq[c].steps}
            /\ gpc' = [gpc EXCEPT ![c] = "insert_plan"]
            /\ UNCHANGED gresp
  /\ UNCHANGED <<handlerVars, learning_goals, study_plans, upc, ureq, uprogress, uresp, greq>>

\* await from('study_plans').insert({...}): the result is not looked at
GInsertPlan(c) ==
  /\ gpc[c] = "insert_plan"
  /\ \E planError \in BOOLEAN :
       study_plans' = IF planError THEN study_plans ELSE study_plans \cup {[goal_title |-> c]}
  /\ GReply(c, 200)
  /\ UNCHANGED <<handlerVars, learning_goals, lessons, upc, ureq, uprogress, uresp, greq>>

GoalNext ==
  \/ \E c \in Clients : GStart(c)
  \/ \E c \in Clients : GInsertGoal(c)
  \/ \E c \in Clients : GInsertLessons(c)
  \/ \E c \in Clients : GInsertPlan(c)

GoalSpec == GoalInit /\ [][GoalNext]_vars

\* ================================================================== claims
IsPlanResponse == response.status = 200 /\ response.kind \in {"plan", "fallback"}

\* C1: whatever the backend and the probed hosts do, including never
\* answering, the handler eventually sends a response.
C1_EventuallyResponds == <>(pc = "done" /\ response # NoResponse)

C3_NonRetryableFallsBack ==
  LET nonRetryable == /\ lastAttempt.kind = "status"
                      /\ lastAttempt.status \in {400, 401, 402, 403}
                      /\ lastAttempt.body # "overloaded"
      fifthFailed == pc = "done" /\ genCalls = 5 /\ lastAttempt.kind = "status"
  IN (nonRetryable \/ fifthFailed) =>
       pc = "done" /\ response.status = 200 /\ response.kind = "fallback"

\* C4: when every call to the generation endpoint fails, a connection error
\* included, the request completes with status 200 and the fallback plan.
C4_UnavailableBackendFallsBack ==
  (pc = "done" /\ lastAttempt.kind \in {"status", "throw"}) =>
    response.status = 200 /\ response.kind = "fallback"

\* C5: the fallback plan has exactly 5 steps with pairwise distinct ids, each
\* with 2 to 3 resources of kind article or exercise, and is returned without
\* any link probe.
C5_FallbackShape ==
  response.kind = "fallback" =>
    LET steps == response.plan.steps IN
    /\ response.status = 200
    /\ Len(steps) = 5
    /\ \A a, b \in 1..Len(steps) : a # b => steps[a].id # steps[b].id
    /\ \A k \in 1..Len(steps) :
         /\ Len(steps[k].resources) \in 2..3
         /\ \A i \in 1..Len(steps[k].resources) :
              steps[k].resources[i].type \in {"article", "exercise"}
    /\ linkCalls = 0
    /\ pc = "done"

C5_Witness ==
  /\ response.kind = "fallback"
  /\ goalTitle = Txt(LongTitle)
  /\ goalDescription # << >>

\* C6: every plan returned with status 200 has at least one step.
C6_ReturnedPlanHasSteps == IsPlanResponse => Len(response.plan.steps) >= 1

C8_AllUrlsChecked ==
  IsPlanResponse =>
    \A k \in 1..Len(response.plan.steps) :
      \A i \in 1..Len(response.plan.steps[k].resources) :
        LET r == response.plan.steps[k].resources[i] IN
        r.url # << >> => <<r.url, r.type>> \in validated

SearchPrefixes == {"https://www.google.com/search?q=", "https://duckduckgo.com/?q="}

\* C8 amended: in a returned generated plan every resource with a URL was
\* checked and found valid by the link validator during this request, except
\* the single search link of a step the filter left empty; the fallback plan
\* is returned with no check at all and carries search links only.
C8_ModelUrlsChecked ==
  /\ response.kind = "plan" =>
       \A k \in 1..Len(response.plan.steps) :
         LET step == response.plan.steps[k] IN
         \A i \in 1..Len(step.resources) :
           LET r == step.resources[i] IN
           r.url # << >> =>
             \/ <<r.url, r.type>> \in validated
             \/ step.resources = <<searchLink(step)>>
  /\ response.kind = "fallback" =>
       /\ validated = {}
       /\ \A k \in 1..Len(response.plan.steps) :
            \A i \in 1..Len(response.plan.steps[k].resources) :
              Head(response.plan.steps[k].resources[i].url) \in SearchPrefixes

C8_Witness ==
  /\ response.kind = "plan"
  /\ \E k \in 1..Len(response.plan.steps) :
       /\ Len(response.plan.steps[k].resources) = 1
       /\ response.plan.steps[k].resources[1].url = YouTubeUrl
  /\ <<YouTubeUrl, "video">> \in validated

\* C9: the difficulty of a plan returned with status 200 is absent or 1, 2 or 3.
C9_DifficultyInRange ==
  IsPlanResponse =>
    \/ response.plan.difficulty = Undef
    \/ response.plan.difficulty.t = "number" /\ response.plan.difficulty.n \in 1..3

\* C10: the catalog is fetched at most once, and when the fetch fails or no
\* model of the catalog can generate content the handler answers 502 and
\* never calls the generation endpoint.
C10_DiscoveryFailureIs502 ==
  /\ modelFetches <= 1
  /\ discovery \in {"throw", "notok", "nocapable"} =>
       pc = "done" /\ response.status = 502 /\ genCalls = 0

\* C11: the selected model matches the earliest entry of the preference list
\* that any capable model of the catalog matches, whatever the listing order;
\* when no capable model matches an entry it is the first capable model.
C11_SelectsByRank ==
  discovery = "found" =>
    IF preference.best > 0 THEN NameIncludes(model, preferredOrder[preference.best])
    ELSE model = preference.first

MissingFieldsMessage == "Generated plan is missing required fields"
InvalidStepsMessage == "Generated plan contains invalid steps"
ParseFailedMessage == "Failed to parse AI generated plan. Please try again."

\* the candidate extracted from the generation response, when there is one
HasCandidate == contentText # << >> /\ extractJson(contentText) \in CandidateIds
Candidate == CandidateOf(extractJson(contentText))

\* C12: after a successful generation response, a failed extraction or a
\* candidate the validator rejects is answered 500 with the parse or schema
\* error: no fallback plan, no further generation call, no link probe.
C12_MalformedOutputIs500 ==
  (contentText # << >> /\
     (\/ extractJson(contentText) \in {ParseError, NoJson}
      \/ HasCandidate /\ (missingRequiredFields(Candidate) \/ ~stepsOk(Candidate)))) =>
    /\ pc = "done"
    /\ response.status = 500 /\ response.kind = "error"
    /\ response.error \in {ParseFailedMessage, MissingFieldsMessage, InvalidStepsMessage}
    /\ linkCalls = 0 /\ stepIdx = 0 /\ plan = NoPlan

C12_Witness ==
  /\ pc = "done" /\ response.status = 500
  /\ contentText = Wrap(JsonText("withfence"))
  /\ extractJson(contentText) = ParseError
  /\ genCalls = 2

\* the first field the checks of the validator find wrong, in check order
firstOffending(c) ==
  IF ~Truthy(c.title) THEN "title"
  ELSE IF ~Truthy(c.summary) THEN "summary"
  ELSE IF ~c.stepsIsArray THEN "steps"
  ELSE LET bad == {k \in 1..Len(c.steps) :
                     \/ c.steps[k].id.t # "string" \/ c.steps[k].title.t # "string"
                     \/ c.steps[k].description.t # "string"
                     \/ c.steps[k].durationMinutes.t # "number"
                     \/ ~c.steps[k].resourcesIsArray} IN
       IF bad = {} THEN "none"
       ELSE LET s == c.steps[CHOOSE k \in bad : \A l \in bad : k <= l] IN
            IF s.id.t # "string" THEN "id"
            ELSE IF s.title.t # "string" THEN "title"
            ELSE IF s.description.t # "string" THEN "description"
            ELSE IF s.durationMinutes.t # "number" THEN "durationMinutes"
            ELSE "resources"

\* the error message contains the name of the field
mentions(msg, field) == msg = InvalidStepsMessage /\ field = "steps"

\* C13 as stated: the error of a rejected candidate names the first offending
\* field; a candidate lacking steps yields an error naming steps.
C13_ErrorNamesField ==
  (HasCandidate /\ firstOffending(Candidate) # "none") =>
    pc = "done" /\ mentions(response.error, firstOffending(Candidate))

\* C13 amended: the error of a rejected candidate is one of two fixed
\* messages chosen in check order, the missing-required-fields message when
\* title, summary or steps is the first offending field and the
\* invalid-steps message when a field of a step is; it does not name the field.
C13_ErrorClassInCheckOrder ==
  (HasCandidate /\ firstOffending(Candidate) # "none") =>
    /\ pc = "done" /\ response.status = 500
    /\ response.error = IF firstOffending(Candidate) \in {"title", "summary", "steps"}
                        THEN MissingFieldsMessage ELSE InvalidStepsMessage

C13_Witness ==
  /\ HasCandidate /\ extractJson(contentText) = "notitlebadstep"
  /\ response.error = MissingFieldsMessage

\* C14: for every well-formed plan JSON text j, whatever its strings contain,
\* extraction of j wrapped in a json-labelled fence and extraction of the
\* bare j both give JSON.parse(j).
C14_ExtractionRoundTrip ==
  \A c \in CandidateIds :
    contentText \in {JsonText(c), Wrap(JsonText(c))} =>
      extractJson(contentText) = JSONparse(JsonText(c))

malformedInput(body) ==
  \/ ~body.json
  \/ body.goalTitle.t # "string"
  \/ body.goalTitle.s \in {<< >>, Txt("   ")}

\* C16: an authenticated request with malformed input is answered 400 and
\* causes no call to the generative backend.
C16_MalformedInputIs400 ==
  (req.method = "POST" /\ req.auth /\ malformedInput(req.body) /\ pc # "start") =>
    /\ pc = "done" /\ response.status = 400
    /\ modelFetches = 0 /\ genCalls = 0

\* texts of errors thrown inside the handler or by the runtime
ThrownMessages ==
  FetchFailureMessages \cup
  {"thrown: request body is not JSON", "thrown: GEMINI_API_KEY is not configured",
   "thrown: catalog body is not JSON", "thrown: generation body is not JSON"}

\* C17: no response body contains the service credential or an internal or
\* upstream error text echoed verbatim.
C17_NoInternalTextInBody ==
  /\ response.error # FetchFailureWithUrl
  /\ response.error \notin ThrownMessages

retryableByClaim(a) ==
  a.kind = "status" /\ (a.status = 429 \/ a.status >= 500 \/ a.body = "overloaded")

\* C19: a further generation call is made only after an attempt that failed
\* with status 429, a server-error status or an overload message.
C19_RetryOnlyAfterRetryable ==
  [][(genCalls' > genCalls /\ genCalls >= 1) => retryableByClaim(lastAttempt)]_vars

\* C20: every outbound call in flight has an abort timer armed.
C20_CallsHaveTimers == inFlightCalls \subseteq armedCalls

\* C21: generation calls are sequential: at most one more call than completed
\* attempts, and call a + 1 (a >= 1) is made only from the backoff that
\* followed the failure of call a, of 2, 4, 8, 16 seconds for a = 1, 2, 3, 4
\* plus a jitter below 300 ms.
C21_SequentialBackoff ==
  /\ [](/\ genCalls - attempt \in {0, 1}
        /\ pc = "await_gen" => genCalls = attempt + 1
        /\ pc = "backoff" => genCalls = attempt)
  /\ [][(genCalls' > genCalls /\ genCalls >= 1) =>
          LET seconds == CASE genCalls = 1 -> 2 [] genCalls = 2 -> 4
                           [] genCalls = 3 -> 8 [] OTHER -> 16
          IN /\ genCalls' = genCalls + 1 /\ genCalls <= 4
             /\ pc = "backoff" /\ pc' = "await_gen"
             /\ lastAttempt.kind = "status"
             /\ delay >= seconds * 1000 /\ delay < seconds * 1000 + 300]_vars

C21_Witness == pc = "await_gen" /\ genCalls = 5 /\ delay = 16299

\* what the plan validator is said to require of a candidate
acceptableByClaim(c) ==
  /\ c.title.t = "string" /\ c.title.s # << >>
  /\ c.summary.t = "string" /\ c.summary.s # << >>
  /\ \A k \in 1..Len(c.steps) :
       /\ c.steps[k].id.t = "string" /\ c.steps[k].title.t = "string"
       /\ c.steps[k].description.t = "string"
       /\ c.steps[k].durationMinutes.t = "number" /\ c.steps[k].durationMinutes.n >= 0
       /\ c.steps[k].resourcesIsArray

\* C22: a candidate whose title or summary is not a non-empty string, or with
\* a step lacking a string id, title or description, a non-negative numeric
\* durationMinutes or a resources sequence, is rejected with the schema error.
C22_ValidatorRejects ==
  (HasCandidate /\ ~acceptableByClaim(Candidate)) =>
    /\ pc = "done" /\ response.status = 500
    /\ response.error \in {MissingFieldsMessage, InvalidStepsMessage}

\* the text has a markdown fenced block, and that block holds no {...} span
fencedBlockWithoutObject(text) ==
  /\ \A i \in 1..Len(text) : text[i] # "strfence"
  /\ codeBlockMatch(text)[1]
  /\ ~jsonMatch(codeBlockMatch(text)[2])[1]

\* C23: when the text has a fenced block without a {...} in it and, elsewhere,
\* a {...} span, extraction parses the span from the first { to the last }
\* and succeeds.
C23_FenceWithoutObjectSkipped ==
  (fencedBlockWithoutObject(contentText) /\ jsonMatch(contentText)[1]) =>
    /\ extractJson(contentText) = JSONparse(jsonMatch(contentText)[2])
    /\ JSONparse(jsonMatch(contentText)[2]) \in CandidateIds => response.error # ParseFailedMessage

\* C28: every response has status 200, 400, 401, 500 or 502, never 429 or
\* 402, whatever statuses the generation endpoint answered with.
C28_ResponseStatuses ==
  /\ response.status \notin {429, 402}
  /\ pc = "done" => response.status \in {200, 400, 401, 500, 502}

C28_Witness ==
  /\ pc = "done" /\ lastAttempt.kind = "status" /\ lastAttempt.status \in {429, 402}
  /\ response.status = 200 /\ response.kind = "fallback"

\* C24: the link validator never returns true for a resource of kind video
\* whose url is not a YouTube url, whatever the oembed endpoint answers, and
\* no such resource is in a returned plan.
C24_OnlyYouTubeVideosValid ==
  /\ \A v \in validated : v[2] = "video" => IsYouTubeUrl(v[1])
  /\ response.kind = "plan" =>
       \A k \in 1..Len(response.plan.steps) :
         \A i \in 1..Len(response.plan.steps[k].resources) :
           LET r == response.plan.steps[k].resources[i] IN
           (r.type = "video" /\ r.url # << >>) => IsYouTubeUrl(r.url)

\* the HEAD probe was not supported (405) or failed (rejection, timeout)
headFailed(e) ==
  e.call = "head" /\ (e.end \in {"throw", "timeout"} \/ (e.end = "resp" /\ e.status = 405))

\* C25: when the HEAD probe of an article, course or book is unsupported or
\* fails, one partial-content GET is put in flight; the resource is valid iff
\* that GET answers with a 2xx or 3xx status, and no second GET follows.
C25_OneFallbackGet ==
  [][(pc = "filtering" /\ Len(probeLog') > Len(probeLog)) =>
       LET e == probeLog'[Len(probeLog')] IN
       /\ headFailed(e) => probes'[e.i].st = "get"
       /\ (e.call = "head" /\ ~headFailed(e)) => probes'[e.i].st \in {"valid", "invalid"}
       /\ e.call = "get" =>
            probes'[e.i].st = IF e.end = "resp" /\ e.status >= 200 /\ e.status < 400
                              THEN "valid" ELSE "invalid"]_vars

\* the resources of a step whose check succeeded, in listing order
RECURSIVE survivors(_, _)
survivors(resources, keep) ==
  IF resources = << >> THEN << >>
  ELSE (IF Len(resources) \in keep THEN survivors(SubSeq(resources, 1, Len(resources) - 1), keep)
                                        \o <<resources[Len(resources)]>>
        ELSE survivors(SubSeq(resources, 1, Len(resources) - 1), keep))

\* C26: the resources of a step that survive filtering are in the order of
\* the model's output, in whatever order the fetches of the checks ended.
C26_OrderPreserved ==
  [][(pc = "filtering" /\ plan' # plan) =>
       LET before == plan.steps[stepIdx].resources
           after == plan'.steps[stepIdx].resources
           keep == {i \in 1..Len(probes) : probes[i].st \in {"kept", "valid"}}
       IN keep # {} => after = survivors(before, keep)]_vars

C26_Witness ==
  /\ pc = "done" /\ response.kind = "plan" /\ extractJson(contentText) = "talk"
  /\ response.plan.steps[1].resources = Candidate.steps[1].resources
  /\ Len(probeLog) = 2 /\ probeLog[1].i = 2 /\ probeLog[2].i = 1

\* plan p is candidate c with nothing changed but the resources lists, where
\* every resource without a url is kept and every resource is one of c's or
\* the search link of its step
onlyResourcesFiltered(p, c) ==
  /\ p.title = c.title /\ p.category = c.category /\ p.difficulty = c.difficulty
  /\ p.summary = c.summary
  /\ Len(p.steps) = Len(c.steps)
  /\ \A k \in 1..Len(c.steps) :
       LET ps == p.steps[k]
           cs == c.steps[k] IN
       /\ ps.id = cs.id /\ ps.title = cs.title /\ ps.description = cs.description
       /\ ps.durationMinutes = cs.durationMinutes
       /\ \A i \in 1..Len(cs.resources) :
            cs.resources[i].url = << >> =>
              \E j \in 1..Len(ps.resources) : ps.resources[j] = cs.resources[i]
       /\ \A j \in 1..Len(ps.resources) :
            \/ \E i \in 1..Len(cs.resources) : ps.resources[j] = cs.resources[i]
            \/ ps.resources = <<searchLink(cs)>>

\* C27: filtering changes nothing of the plan but the steps' resources lists,
\* keeps every resource without a url and returns the survivors unmodified.
C27_FilteringFrame ==
  /\ pc = "filtering" => onlyResourcesFiltered(plan, Candidate)
  /\ response.kind = "plan" => onlyResourcesFiltered(response.plan, Candidate)

C27_Witness ==
  /\ pc = "done" /\ response.kind = "plan" /\ extractJson(contentText) = "good"
  /\ Len(response.plan.steps[1].resources) = 1
  /\ response.plan.steps[2].resources[1] = Res("book", Txt("Textbook"), << >>)

\* C29: once all concurrent update-goal-progress requests for the goal have
\* completed successfully, the stored progress is round(100 * completed / total)
\* over the final completion flags (0 without lessons); the stored value is
\* always an integer in 0..100.
C29_ProgressMatchesLessons ==
  /\ \A g \in learning_goals : g.progress \in 0..100
  /\ (\A c \in Clients : upc[c] = "done" /\ uresp[c] = 200) =>
       \A g \in learning_goals :
         g.id = goalId =>
           LET total == Cardinality(lessonsOf(goalId))
               finished == Cardinality({l \in lessonsOf(goalId) : l.completed})
           IN g.progress = IF total = 0 THEN 0
                           ELSE (200 * finished + total) \div (2 * total)

\* C30: when create-goal has answered with an error no learning_goals row of
\* the request is stored; when it has answered success to a request with a
\* study plan, the goal, one lesson per step with order_index its position,
\* and the study_plans record are stored.
C30_AllOrNothing ==
  \A c \in Clients :
    /\ (gpc[c] = "done" /\ gresp[c] \in {401, 500}) =>
         ~\E g \in learning_goals : g.id = c
    /\ (gpc[c] = "done" /\ gresp[c] = 200 /\ greq[c].studyPlan) =>
         /\ \E g \in learning_goals : g.id = c
         /\ {l.order_index : l \in lessonsOf(c)} = {k - 1 : k \in 1..greq[c].steps}
         /\ \E r \in study_plans : r.goal_title = c

====
